---- MODULE Spec2Model ----
(***************************************************************************)
(* The To-Do List API of src/main.py: an in-memory task store (db_tasks,   *)
(* task_id_counter) behind seven HTTP handlers.  One action is one whole   *)
(* request: the framework's validation of the body, the handler, and the   *)
(* validation of what the handler returns against its response_model.      *)
(*                                                                         *)
(* JSON and Python values are written as their Python repr, so that a text *)
(* 'a', the value None and a boolean True never get mixed up:              *)
(*   "'a'" "'b'" "'x'" "''"  text  "True" "False"  booleans                *)
(*   "None"            null        "[]"            a JSON array            *)
(*   "<unset>"         the key is not in the request body                  *)
(***************************************************************************)
EXTENDS Integers, Sequences, FiniteSets, TLC

VARIABLES
    db_tasks,         \* main.py:18, the dict as its entries in insertion order
    task_id_counter,  \* main.py:19
    req,              \* the request being served: [op, id, body], op "none" when idle
    resp,             \* its response: [status, detail, body]
    issued,           \* history: the ids returned by the creates, in order
    deleted,          \* history: the ids whose delete returned 204
    written,          \* history: id -> the task last written by create, replace or patch
    before,           \* history: what the store held under req.id when the handler began
    prev_create,      \* history: the create answered just before req, if that is what came
    workers,          \* the threadpool: worker -> the request it runs and where it is in it
    received,         \* history: the requests the workers have taken
    log               \* history: the writes to db_tasks by the workers, in order

vars == <<db_tasks, task_id_counter, req, resp, issued, deleted, written, before, prev_create,
          workers, received, log>>
\* What only the one-request-at-a-time specification uses, and what only the threadpool's.
seq_vars == <<req, resp, written, before, prev_create>>
conc_vars == <<workers, received, log>>

\* The creates a behaviour may hold; path ids are drawn from 0..MaxCreates.
MaxCreates == 2
\* The threads of the pool that run handlers at the same time.
NumWorkers == 2
\* The requests a behaviour of the threadpool may hold.
MaxRequests == 4

Unset == "<unset>"
None == "None"
Text == {"'a'", "'b'", "'x'", "''"}
Bool == {"True", "False"}
Fields == {"title", "description", "completed"}

\* A JSON request body: the three fields of the models, and an "id" key, which no
\* request model declares (<<>> when the body has none, <<n>> when it has "id": n).
BodyWithId(t, d, c, i) == [title |-> t, description |-> d, completed |-> c, id |-> i]
Body(t, d, c) == BodyWithId(t, d, c, <<>>)
NoBody == Body(Unset, Unset, Unset)

\* The request bodies sent to POST /tasks/ and PUT /tasks/{id}.
CreateBodies ==
    { Body("'a'", Unset, Unset),
      Body("'b'", "'x'", "True"),
      Body("''", Unset, Unset),
      Body("'a'", None, "False"),
      Body(Unset, "'x'", Unset),
      Body(None, Unset, Unset),
      Body("[]", Unset, Unset),
      Body("'a'", Unset, None),
      BodyWithId("'b'", Unset, Unset, <<2>>) }

\* The request bodies sent to PATCH /tasks/{id}.
PatchBodies ==
    { Body(Unset, Unset, Unset),
      Body(Unset, Unset, "True"),
      Body("'b'", Unset, Unset),
      Body(None, Unset, Unset),
      Body(Unset, Unset, None),
      Body(Unset, None, Unset),
      Body(Unset, "'x'", Unset),
      Body("''", Unset, "False"),
      Body("[]", Unset, Unset),
      BodyWithId(Unset, Unset, "True", <<2>>) }

PathIds == 0..MaxCreates

(***************************************************************************)
(* The pydantic models.                                                    *)
(***************************************************************************)
\* title: str
IsStr(v) == v \in Text
\* Optional[str]
IsOptionalStr(v) == IsStr(v) \/ v = None
IsBool(v) == v \in Bool
IsOptionalBool(v) == IsBool(v) \/ v = None

\* A model that accepts any body.
TaskCreateAnything(body) == TRUE

\* class TaskBase / TaskCreate: does the body validate
TaskCreateValid(body) ==
    /\ IsStr(body.title)
    /\ body.description = Unset \/ IsOptionalStr(body.description)
    /\ body.completed = Unset \/ IsBool(body.completed)

\* task_in.dict() of a validated TaskCreate: the defaults fill the unset fields
TaskCreateDict(body) ==
    [title |-> body.title,
     description |-> IF body.description = Unset THEN None ELSE body.description,
     completed |-> IF body.completed = Unset THEN "False" ELSE body.completed]

\* class TaskUpdate: does the body validate
TaskUpdateValid(body) ==
    /\ body.title = Unset \/ IsOptionalStr(body.title)
    /\ body.description = Unset \/ IsOptionalStr(body.description)
    /\ body.completed = Unset \/ IsOptionalBool(body.completed)

\* task_in.dict(exclude_none=True): an explicit null is dropped like a missing key.
TaskUpdateDictNoNone(body) ==
    [f \in {g \in Fields : body[g] \notin {Unset, None}} |-> body[f]]

\* A model that keeps the keys it does not declare: "id" goes into the update.
TaskUpdateDictWithId(body) ==
    [f \in {g \in Fields : body[g] # Unset} \cup (IF body.id # <<>> THEN {"id"} ELSE {}) |->
        IF f = "id" THEN body.id[1] ELSE body[f]]

\* task_in.dict() without exclude_unset: every field, None where the request had none.
TaskUpdateDictAll(body) ==
    [f \in Fields |-> IF body[f] = Unset THEN None ELSE body[f]]

\* task_in.dict(exclude_unset=True): the fields the request carried, with their values
TaskUpdateDict(body) ==
    [f \in {g \in Fields : body[g] # Unset} |-> body[f]]

\* A constructor that loses the payload's completed flag.
TaskIgnoringCompleted(task_id, fields) ==
    [id |-> task_id, title |-> fields.title,
     description |-> fields.description, completed |-> "False"]

\* Task(id=task_id, **fields)
Task(task_id, fields) ==
    [id |-> task_id, title |-> fields.title,
     description |-> fields.description, completed |-> fields.completed]

\* existing_task.copy(update=update_data): no validation of the new values
Copy(task, update) ==
    [f \in DOMAIN task |-> IF f \in DOMAIN update THEN update[f] ELSE task[f]]

\* class Task as a response_model: does a returned task validate
TaskValid(task) ==
    /\ task.id \in Int
    /\ IsStr(task.title)
    /\ IsOptionalStr(task.description)
    /\ IsBool(task.completed)

(***************************************************************************)
(* The dict db_tasks: entries [key, value] in insertion order.             *)
(***************************************************************************)
Keys(d) == {d[i].key : i \in 1..Len(d)}
IndexOf(d, k) == CHOOSE i \in 1..Len(d) : d[i].key = k
\* db_tasks[k] of a present key
DictGet(d, k) == d[IndexOf(d, k)].value
\* db_tasks[k] = v: a present key keeps its place, a new one goes last
DictSet(d, k, v) ==
    IF k \in Keys(d)
    THEN [d EXCEPT ![IndexOf(d, k)] = [key |-> k, value |-> v]]
    ELSE Append(d, [key |-> k, value |-> v])
\* A delete that pops the oldest entry, whatever the key.
DictDelFirst(d, k) == Tail(d)

\* A delete that leaves the entry where it is.
DictDelNothing(d, k) == d

\* del db_tasks[k]
DictDel(d, k) == SelectSeq(d, LAMBDA e : e.key # k)
\* the entry under k as a sequence: <<task>> when present, <<>> when not
Lookup(d, k) == IF k \in Keys(d) THEN <<DictGet(d, k)>> ELSE <<>>
\* list(db_tasks.values())
DictValues(d) == [i \in 1..Len(d) |-> d[i].value]

(***************************************************************************)
(* Requests and responses.                                                 *)
(***************************************************************************)
Request(op, id, body) == [op |-> op, id |-> id, body |-> body]
\* A response: its status, the detail of an error, and the tasks of its body (one task
\* for a Task body, the listing for a List[Task] body, none otherwise).
Response(status, detail, body) == [status |-> status, detail |-> detail, body |-> body]
\* The message returned as an ordinary body instead of raised.
NotFoundReturned == Response(200, "Task not found", <<>>)

\* raise HTTPException(status_code=404, detail="Task not found")
NotFound == Response(404, "Task not found", <<>>)
Unprocessable == Response(422, "validation error", <<>>)
InternalServerError == Response(500, "Internal Server Error", <<>>)

\* response_model=Task: fastapi validates what the handler returns before sending it.
\* With pydantic 1 the returned instance is turned into a dict and validated again, and
\* a failure is a 500; with pydantic 2 an instance of Task passes as it is.  The
\* repository pins neither, so a task that does not validate goes out or ends in a 500.
TaskResponses(status, task) ==
    IF TaskValid(task)
    THEN {Response(status, "", <<task>>)}
    ELSE {Response(status, "", <<task>>), InternalServerError}

\* response_model=List[Task]
ListResponses(tasks) ==
    IF \A i \in 1..Len(tasks) : TaskValid(tasks[i])
    THEN {Response(200, "", tasks)}
    ELSE {Response(200, "", tasks), InternalServerError}

\* Requests are served one at a time: a handler runs when no request is being served,
\* and its response is sent before the next request comes in.
NoRequest == Request("none", 0, NoBody)
NoResponse == Response(0, "", <<>>)
Idle == req = NoRequest

\* An id taken from the size of the store instead of the counter.
NextIdFromSize == Len(db_tasks) + 1

\* task_id_counter += 1
NextId == task_id_counter + 1

\* A replace that merges the body into the stored task.
MergedTask(task_id, task_in) == Copy(DictGet(db_tasks, task_id), TaskUpdateDict(task_in))

\* updated_task = Task(id=task_id, **task_in.dict())
ReplacedTask(task_id, task_in) == Task(task_id, TaskCreateDict(task_in))

\* if task_id not in db_tasks
Missing(task_id) == task_id \notin Keys(db_tasks)

\* A worker of the threadpool (the handlers are plain def functions, which fastapi
\* runs in worker threads): the request, the line it is at, its locals, its response.
Worker(pc, op, task_id, task_in, tmp, task, response) ==
    [pc |-> pc, op |-> op, task_id |-> task_id, task_in |-> task_in,
     tmp |-> tmp, task |-> task, resp |-> response]
IdleWorker == Worker("idle", "none", 0, NoBody, 0, <<>>, NoResponse)
Workers == 1..NumWorkers

Init ==
    /\ workers = [w \in Workers |-> IdleWorker]
    /\ received = 0
    /\ log = <<>>
    /\ db_tasks = <<>>
    /\ task_id_counter = 0
    /\ req = NoRequest
    /\ resp = NoResponse
    /\ issued = <<>>
    /\ deleted = {}
    /\ written = <<>>
    /\ before = <<>>
    /\ prev_create = <<>>

\* GET /
read_root ==
    /\ Idle /\ UNCHANGED conc_vars
    /\ req' = Request("root", 0, NoBody)
    /\ resp' = Response(200, "Welcome to the To-Do List API!", <<>>)
    /\ before' = <<>> /\ prev_create' = <<>>
    /\ UNCHANGED <<db_tasks, task_id_counter, issued, deleted, written>>

\* POST /tasks/
create_task(task_in) ==
    /\ Idle /\ UNCHANGED conc_vars
    /\ req' = Request("create", 0, task_in)
    /\ before' = <<>> /\ prev_create' = <<>>
    /\ IF ~TaskCreateValid(task_in)
       THEN /\ resp' = Unprocessable
            /\ UNCHANGED <<db_tasks, task_id_counter, issued, deleted, written>>
       ELSE /\ task_id_counter < MaxCreates
            /\ task_id_counter' = NextId
            /\ LET new_task == Task(task_id_counter', TaskCreateDict(task_in))
               IN /\ db_tasks' = DictSet(db_tasks, new_task.id, new_task)
                  /\ resp' \in TaskResponses(201, new_task)
                  /\ issued' = Append(issued, new_task.id)
                  /\ written' = [k \in DOMAIN written \cup {new_task.id} |->
                                    IF k = new_task.id THEN new_task ELSE written[k]]
            /\ UNCHANGED deleted

\* GET /tasks/
get_all_tasks ==
    /\ Idle /\ UNCHANGED conc_vars
    /\ req' = Request("list", 0, NoBody)
    /\ before' = <<>> /\ prev_create' = <<>>
    /\ resp' \in ListResponses(DictValues(db_tasks))
    /\ UNCHANGED <<db_tasks, task_id_counter, issued, deleted, written>>

\* GET /tasks/{task_id}
get_task(task_id) ==
    /\ Idle /\ UNCHANGED conc_vars
    /\ req' = Request("get", task_id, NoBody)
    /\ before' = Lookup(db_tasks, task_id) /\ UNCHANGED prev_create
    \* db_tasks.get(task_id) is None for a missing key; a Task instance is never falsy
    /\ IF Missing(task_id)
       THEN resp' = NotFound
       ELSE resp' \in TaskResponses(200, DictGet(db_tasks, task_id))
    /\ UNCHANGED <<db_tasks, task_id_counter, issued, deleted, written>>

\* PUT /tasks/{task_id}
update_task_full(task_id, task_in) ==
    /\ Idle /\ UNCHANGED conc_vars
    /\ req' = Request("replace", task_id, task_in)
    /\ before' = Lookup(db_tasks, task_id) /\ prev_create' = <<>>
    /\ IF ~TaskCreateValid(task_in)
       THEN /\ resp' = Unprocessable
            /\ UNCHANGED <<db_tasks, written>>
       ELSE IF Missing(task_id)
       THEN /\ resp' = NotFound
            /\ UNCHANGED <<db_tasks, written>>
       ELSE LET updated_task == ReplacedTask(task_id, task_in)
            IN /\ db_tasks' = DictSet(db_tasks, task_id, updated_task)
               /\ resp' \in TaskResponses(200, updated_task)
               /\ written' = [written EXCEPT ![task_id] = updated_task]
    /\ UNCHANGED <<task_id_counter, issued, deleted>>

\* PATCH /tasks/{task_id}
update_task_partial(task_id, task_in) ==
    /\ Idle /\ UNCHANGED conc_vars
    /\ req' = Request("patch", task_id, task_in)
    /\ before' = Lookup(db_tasks, task_id) /\ prev_create' = <<>>
    /\ IF ~TaskUpdateValid(task_in)
       THEN /\ resp' = Unprocessable
            /\ UNCHANGED <<db_tasks, written>>
       ELSE IF Missing(task_id)
       THEN /\ resp' = NotFound
            /\ UNCHANGED <<db_tasks, written>>
       ELSE LET existing_task == DictGet(db_tasks, task_id)
                update_data == TaskUpdateDict(task_in)
                updated_task == Copy(existing_task, update_data)
            IN /\ db_tasks' = DictSet(db_tasks, task_id, updated_task)
               /\ resp' \in TaskResponses(200, updated_task)
               /\ written' = [written EXCEPT ![task_id] = updated_task]
    /\ UNCHANGED <<task_id_counter, issued, deleted>>

\* DELETE /tasks/{task_id}
delete_task(task_id) ==
    /\ Idle /\ UNCHANGED conc_vars
    /\ req' = Request("delete", task_id, NoBody)
    /\ before' = Lookup(db_tasks, task_id) /\ prev_create' = <<>>
    /\ IF Missing(task_id)
       THEN /\ resp' = NotFound
            /\ UNCHANGED <<db_tasks, deleted, written>>
       ELSE /\ db_tasks' = DictDel(db_tasks, task_id)
            /\ resp' = Response(204, "", <<>>)
            /\ deleted' = deleted \cup {task_id}
            /\ written' = [k \in DOMAIN written \ {task_id} |-> written[k]]
    /\ UNCHANGED <<task_id_counter, issued>>

\* The response goes out to the client; the server is ready for the next request.
send_response ==
    /\ ~Idle /\ UNCHANGED conc_vars
    /\ req' = NoRequest
    /\ resp' = NoResponse
    /\ before' = <<>>
    /\ prev_create' = IF req.op = "create" /\ resp.status = 201
                      THEN <<[id |-> resp.body[1].id, body |-> req.body]>>
                      ELSE <<>>
    /\ UNCHANGED <<db_tasks, task_id_counter, issued, deleted, written>>

Next ==
    \/ read_root
    \/ \E task_in \in CreateBodies : create_task(task_in)
    \/ get_all_tasks
    \/ \E task_id \in PathIds : get_task(task_id)
    \/ \E task_id \in PathIds, task_in \in CreateBodies : update_task_full(task_id, task_in)
    \/ \E task_id \in PathIds, task_in \in PatchBodies : update_task_partial(task_id, task_in)
    \/ \E task_id \in PathIds : delete_task(task_id)
    \/ send_response

Spec == Init /\ [][Next]_vars

(***************************************************************************)
(* The handlers in the threadpool.  A thread can be switched out between   *)
(* any two reads or writes of db_tasks and task_id_counter: one step is one *)
(* such access with the local work that follows it, named by its line.     *)
(***************************************************************************)
\* The requests the workers are given.
ConcIds == {1}
ConcCreateBodies ==
    { Body("'a'", Unset, Unset),
      Body("'b'", "'x'", "False"),
      Body(Unset, Unset, Unset) }
ConcPatchBodies ==
    { Body("'b'", Unset, Unset),
      Body(Unset, Unset, "True") }

\* An exception no handler catches (KeyError): the server answers 500.
Unhandled == InternalServerError

At(w, op, line) == workers[w].op = op /\ workers[w].pc = line
Goto(w, line) == workers' = [workers EXCEPT ![w].pc = line]
Return(w, response) == workers' = [workers EXCEPT ![w].pc = "done", ![w].resp = response]
Logged(w, op, id) == log' = Append(log, [w |-> w, op |-> op, id |-> id])

\* A worker takes a request; a body that does not validate is answered 422 at once.
receive(w, op, task_id, task_in, valid, line) ==
    /\ workers[w].pc = "idle"
    /\ received < MaxRequests
    /\ received' = received + 1
    /\ workers' = [workers EXCEPT ![w] =
          IF valid
          THEN Worker(line, op, task_id, task_in, 0, <<>>, NoResponse)
          ELSE Worker("done", op, task_id, task_in, 0, <<>>, Unprocessable)]
    /\ UNCHANGED <<db_tasks, task_id_counter, issued, deleted, log>>
    /\ UNCHANGED seq_vars

receive_create_task(w, task_in) ==
    receive(w, "create", 0, task_in, TaskCreateValid(task_in), "line70")
receive_update_task_full(w, task_id, task_in) ==
    receive(w, "replace", task_id, task_in, TaskCreateValid(task_in), "line117")
receive_update_task_partial(w, task_id, task_in) ==
    receive(w, "patch", task_id, task_in, TaskUpdateValid(task_in), "line135")
receive_delete_task(w, task_id) ==
    receive(w, "delete", task_id, NoBody, TRUE, "line160")
receive_get_task(w, task_id) ==
    receive(w, "get", task_id, NoBody, TRUE, "line101")
receive_get_all_tasks(w) ==
    receive(w, "list", 0, NoBody, TRUE, "line89")

\* task_id_counter += 1 reads the global ...
create_task_line70_load(w) ==
    /\ At(w, "create", "line70")
    /\ workers' = [workers EXCEPT ![w].pc = "line70_store", ![w].tmp = task_id_counter]
    /\ UNCHANGED <<db_tasks, task_id_counter, issued, deleted, received, log>>
    /\ UNCHANGED seq_vars

\* ... and writes it back, one more
create_task_line70_store(w) ==
    /\ At(w, "create", "line70_store")
    /\ task_id_counter' = workers[w].tmp + 1
    /\ Goto(w, "line73")
    /\ UNCHANGED <<db_tasks, issued, deleted, received, log>>
    /\ UNCHANGED seq_vars

\* new_task = Task(id=task_id_counter, **task_in.dict())
create_task_line73(w) ==
    /\ At(w, "create", "line73")
    /\ workers' = [workers EXCEPT
          ![w].pc = "line76",
          ![w].task = <<Task(task_id_counter, TaskCreateDict(workers[w].task_in))>>]
    /\ UNCHANGED <<db_tasks, task_id_counter, issued, deleted, received, log>>
    /\ UNCHANGED seq_vars

\* db_tasks[new_task.id] = new_task; return new_task
create_task_line76(w) ==
    /\ At(w, "create", "line76")
    /\ LET new_task == workers[w].task[1]
       IN /\ db_tasks' = DictSet(db_tasks, new_task.id, new_task)
          /\ \E response \in TaskResponses(201, new_task) : Return(w, response)
          /\ issued' = Append(issued, new_task.id)
          /\ Logged(w, "create", new_task.id)
    /\ UNCHANGED <<task_id_counter, deleted, received>>
    /\ UNCHANGED seq_vars

\* return list(db_tasks.values())
get_all_tasks_line89(w) ==
    /\ At(w, "list", "line89")
    /\ \E response \in ListResponses(DictValues(db_tasks)) : Return(w, response)
    /\ UNCHANGED <<db_tasks, task_id_counter, issued, deleted, received, log>>
    /\ UNCHANGED seq_vars

\* task = db_tasks.get(task_id), and the answer
get_task_line101(w) ==
    /\ At(w, "get", "line101")
    /\ IF Missing(workers[w].task_id)
       THEN Return(w, NotFound)
       ELSE \E response \in TaskResponses(200, DictGet(db_tasks, workers[w].task_id)) :
               Return(w, response)
    /\ UNCHANGED <<db_tasks, task_id_counter, issued, deleted, received, log>>
    /\ UNCHANGED seq_vars

\* if task_id not in db_tasks: raise HTTPException(404), in replace, patch and delete
check_exists(w, op, line, next) ==
    /\ At(w, op, line)
    /\ IF Missing(workers[w].task_id)
       THEN Return(w, NotFound)
       ELSE Goto(w, next)
    /\ UNCHANGED <<db_tasks, task_id_counter, issued, deleted, received, log>>
    /\ UNCHANGED seq_vars

update_task_full_line117(w) == check_exists(w, "replace", "line117", "line122")
update_task_partial_line135(w) == check_exists(w, "patch", "line135", "line138")
delete_task_line160(w) == check_exists(w, "delete", "line160", "line163")

\* db_tasks[task_id] = updated_task; return updated_task
update_task_full_line122(w) ==
    /\ At(w, "replace", "line122")
    /\ LET task_id == workers[w].task_id
           updated_task == ReplacedTask(task_id, workers[w].task_in)
       IN /\ db_tasks' = DictSet(db_tasks, task_id, updated_task)
          /\ \E response \in TaskResponses(200, updated_task) : Return(w, response)
          /\ Logged(w, "replace", task_id)
    /\ UNCHANGED <<task_id_counter, issued, deleted, received>>
    /\ UNCHANGED seq_vars

\* existing_task = db_tasks[task_id]: KeyError when the key is gone
update_task_partial_line138(w) ==
    /\ At(w, "patch", "line138")
    /\ IF Missing(workers[w].task_id)
       THEN Return(w, Unhandled)
       ELSE workers' = [workers EXCEPT
               ![w].pc = "line148",
               ![w].task = <<DictGet(db_tasks, workers[w].task_id)>>]
    /\ UNCHANGED <<db_tasks, task_id_counter, issued, deleted, received, log>>
    /\ UNCHANGED seq_vars

\* db_tasks[task_id] = existing_task.copy(update=update_data); return updated_task
update_task_partial_line148(w) ==
    /\ At(w, "patch", "line148")
    /\ LET task_id == workers[w].task_id
           existing_task == workers[w].task[1]
           update_data == TaskUpdateDict(workers[w].task_in)
           updated_task == Copy(existing_task, update_data)
       IN /\ db_tasks' = DictSet(db_tasks, task_id, updated_task)
          /\ \E response \in TaskResponses(200, updated_task) : Return(w, response)
          /\ Logged(w, "patch", task_id)
    /\ UNCHANGED <<task_id_counter, issued, deleted, received>>
    /\ UNCHANGED seq_vars

\* del db_tasks[task_id]: KeyError when the key is gone; return None
delete_task_line163(w) ==
    /\ At(w, "delete", "line163")
    /\ IF Missing(workers[w].task_id)
       THEN /\ Return(w, Unhandled)
            /\ UNCHANGED <<db_tasks, deleted, log>>
       ELSE /\ db_tasks' = DictDel(db_tasks, workers[w].task_id)
            /\ Return(w, Response(204, "", <<>>))
            /\ deleted' = deleted \cup {workers[w].task_id}
            /\ Logged(w, "delete", workers[w].task_id)
    /\ UNCHANGED <<task_id_counter, issued, received>>
    /\ UNCHANGED seq_vars

\* The response has gone out; the worker is free for the next request.
finish(w) ==
    /\ workers[w].pc = "done"
    /\ workers' = [workers EXCEPT ![w] = IdleWorker]
    /\ UNCHANGED <<db_tasks, task_id_counter, issued, deleted, received, log>>
    /\ UNCHANGED seq_vars

ConcNext ==
    \/ \E w \in Workers, task_in \in ConcCreateBodies : receive_create_task(w, task_in)
    \/ \E w \in Workers, task_id \in ConcIds, task_in \in ConcCreateBodies :
          receive_update_task_full(w, task_id, task_in)
    \/ \E w \in Workers, task_id \in ConcIds, task_in \in ConcPatchBodies :
          receive_update_task_partial(w, task_id, task_in)
    \/ \E w \in Workers, task_id \in ConcIds : receive_delete_task(w, task_id)
    \/ \E w \in Workers, task_id \in ConcIds : receive_get_task(w, task_id)
    \/ \E w \in Workers : receive_get_all_tasks(w)
    \/ \E w \in Workers : create_task_line70_load(w)
    \/ \E w \in Workers : create_task_line70_store(w)
    \/ \E w \in Workers : create_task_line73(w)
    \/ \E w \in Workers : create_task_line76(w)
    \/ \E w \in Workers : get_all_tasks_line89(w)
    \/ \E w \in Workers : get_task_line101(w)
    \/ \E w \in Workers : update_task_full_line117(w)
    \/ \E w \in Workers : update_task_full_line122(w)
    \/ \E w \in Workers : update_task_partial_line135(w)
    \/ \E w \in Workers : update_task_partial_line138(w)
    \/ \E w \in Workers : update_task_partial_line148(w)
    \/ \E w \in Workers : delete_task_line160(w)
    \/ \E w \in Workers : delete_task_line163(w)
    \/ \E w \in Workers : finish(w)

ConcSpec == Init /\ [][ConcNext]_vars

(***************************************************************************)
(* The properties.                                                         *)
(***************************************************************************)
\* The operations that take a path id.
IdOps == {"get", "replace", "patch", "delete"}

\* The request passes the framework's validation, so its handler runs.
Validates(r) ==
    CASE r.op \in {"create", "replace"} -> TaskCreateValid(r.body)
      [] r.op = "patch" -> TaskUpdateValid(r.body)
      [] OTHER -> TRUE

\* What a creation payload says the task is: its fields, the defaults for those left out.
Described(id, payload) ==
    [id |-> id,
     title |-> payload.title,
     description |-> IF payload.description = Unset THEN None ELSE payload.description,
     completed |-> IF payload.completed = Unset THEN "False" ELSE payload.completed]

\* C1: the ids returned by the successful creates are 1, 2, 3, ... in the order of the
\* creates: each is one more than the one before and greater than every earlier one,
\* whatever was deleted in between, so no id is handed out twice.
C1_IdsCountUp ==
    /\ \A i \in 1..Len(issued) : issued[i] = i
    /\ (req.op = "create" /\ resp.status = 201) =>
          /\ resp.body[1].id = issued[Len(issued)]
          /\ \A i \in 1..(Len(issued) - 1) : issued[i] < resp.body[1].id
          /\ resp.body[1].id \notin deleted

\* A create answered after the task of an earlier create was deleted.
C1_Witness ==
    /\ req.op = "create" /\ resp.status = 201
    /\ Len(issued) = 2 /\ 1 \in deleted

\* C2: a get of the id a create has just returned answers 200 with the task the payload
\* describes (no description is None, no completed is False) under the returned id.
C2_CreateThenGet ==
    (req.op = "get" /\ prev_create # <<>> /\ req.id = prev_create[1].id) =>
        /\ resp.status = 200
        /\ resp.body = <<Described(prev_create[1].id, prev_create[1].body)>>

\* A get right after the second create, whose payload had only a title.
C2_Witness ==
    /\ req.op = "get" /\ prev_create # <<>> /\ req.id = prev_create[1].id
    /\ prev_create[1].body = Body("'a'", Unset, Unset) /\ req.id = 2
    /\ resp.status = 200

C4_PatchOnlyWhatIsSent ==
    (req.op = "patch" /\ before # <<>> /\ Validates(req)) =>
        LET new == Lookup(db_tasks, req.id)
        IN /\ new # <<>>
           /\ new[1].id = before[1].id
           /\ \A f \in Fields :
                 new[1][f] = IF req.body[f] # Unset THEN req.body[f] ELSE before[1][f]
           /\ req.body = Body(Unset, Unset, "True") =>
                 /\ new[1].title = before[1].title
                 /\ new[1].description = before[1].description
                 /\ new[1].completed = "True"

\* A patch of only completed = true, of a task with a description that was not completed.
C4_Witness ==
    /\ req.op = "patch" /\ req.body = Body(Unset, Unset, "True") /\ resp.status = 200
    /\ before # <<>> /\ before[1].completed = "False" /\ before[1].description = "'x'"

\* C11: a patch of a stored task whose description is text leaves the description as it
\* was when the body has no description key, and sets it to None when the body has
\* description = null.
C11_OmittedIsNotNull ==
    (req.op = "patch" /\ before # <<>> /\ Validates(req) /\ before[1].description \in Text) =>
        LET new == Lookup(db_tasks, req.id)
        IN /\ new # <<>>
           /\ req.body.description = Unset => new[1].description = before[1].description
           /\ req.body.description = None => new[1].description = None

\* A patch with description = null of a task that had a description.
C11_Witness ==
    /\ req.op = "patch" /\ req.body = Body(Unset, None, Unset) /\ resp.status = 200
    /\ before # <<>> /\ before[1].description = "'x'"
    /\ Lookup(db_tasks, req.id) # <<>> /\ Lookup(db_tasks, req.id)[1].description = None

\* A patch without a description key of a task that had a description.
C11_WitnessOmitted ==
    /\ req.op = "patch" /\ req.body = Body("'b'", Unset, Unset) /\ resp.status = 200
    /\ before # <<>> /\ before[1].description = "'x'"

\* C5: an id whose delete answered 204 is never a key of the store again, and every
\* later get, delete, and replace or patch with a body that validates, of that id
\* answers 404, however many creates follow.
C5_DeletedStaysGone ==
    /\ [](deleted \cap Keys(db_tasks) = {})
    /\ [][(req'.op \in IdOps /\ req'.id \in deleted /\ Validates(req'))
             => resp'.status = 404]_vars

\* A patch of a deleted id answering 404 after a later create.
C5_Witness ==
    /\ req.op = "patch" /\ req.id = 1 /\ resp.status = 404 /\ Validates(req)
    /\ 1 \in deleted /\ Len(issued) = 2 /\ Len(db_tasks) = 1

\* C6: list answers 200 with as many tasks as creates succeeded less deletes succeeded,
\* no two with the same id, each the value last written under its id.
C6_ListMatchesHistory ==
    req.op = "list" =>
        /\ resp.status = 200
        /\ Len(resp.body) = Len(issued) - Cardinality(deleted)
        /\ \A i, j \in 1..Len(resp.body) : i # j => resp.body[i].id # resp.body[j].id
        /\ \A i \in 1..Len(resp.body) :
              /\ resp.body[i].id \in DOMAIN written
              /\ resp.body[i] = written[resp.body[i].id]

\* C7: a get, replace, patch or delete of an id that is not a key of the store leaves
\* the store and the counter as they were and, when its body validates, answers 404;
\* and none of the four answers 404 for an id that is a key.
C7_NotFoundChangesNothing ==
    [][req'.op \in IdOps =>
          /\ req'.id \notin Keys(db_tasks) =>
                /\ db_tasks' = db_tasks
                /\ task_id_counter' = task_id_counter
                /\ Validates(req') => resp'.status = 404
          /\ resp'.status = 404 => req'.id \notin Keys(db_tasks)]_vars

\* A replace of a missing id answering 404 while the store holds a task.
C7_Witness ==
    /\ req.op = "replace" /\ resp.status = 404 /\ before = <<>>
    /\ db_tasks # <<>>

\* C8: a create or replace whose title is missing or not text answers 422 and changes
\* neither the store nor the counter, as does every request answered 422; so a create
\* that succeeds returns one more than the number of creates that succeeded before it,
\* whatever was rejected in between.
C8_RejectedChangesNothing ==
    [][/\ (req'.op \in {"create", "replace"} /\ req'.body.title \notin Text)
             => resp'.status = 422
       /\ resp'.status = 422
             => db_tasks' = db_tasks /\ task_id_counter' = task_id_counter
       /\ (req'.op = "create" /\ resp'.status = 201)
             => resp'.body[1].id = Len(issued) + 1]_vars

\* A create without a title rejected after one task was created.
C8_Witness ==
    /\ req.op = "create" /\ req.body.title = Unset /\ resp.status = 422
    /\ task_id_counter = 1 /\ Len(db_tasks) = 1

\* C9: every stored task has a title that is text and not empty.
C9_TitlesNonEmptyText ==
    \A i \in 1..Len(db_tasks) :
        /\ db_tasks[i].value.title \in Text
        /\ db_tasks[i].value.title # "''"

\* C10: every stored task has a completed that is True or False.
C10_CompletedIsBoolean ==
    \A i \in 1..Len(db_tasks) : db_tasks[i].value.completed \in Bool

\* The ids of the store's tasks, in the order of the store.
KeyOrder(d) == [i \in 1..Len(d) |-> d[i].key]

\* C16: list answers 200 with the store's tasks in the order of their creation, which
\* is the order of their ids: the store's keys are always in strictly increasing order
\* (so a replace or patch keeps a task's place, a delete moves no other task) and the
\* listing is the store's values in that order.
C16_ListInCreationOrder ==
    /\ \A i, j \in 1..Len(db_tasks) : i < j => db_tasks[i].key < db_tasks[j].key
    /\ req.op = "list" =>
          /\ resp.status = 200
          /\ resp.body = DictValues(db_tasks)
          /\ \A i, j \in 1..Len(resp.body) : i < j => resp.body[i].id < resp.body[j].id

\* C16, as far as the store goes: the keys are always in strictly increasing order, a
\* listing that is answered 200 is the store's values in that order, a replace or
\* patch leaves the order of the keys as it is and a delete only takes its key out.
C16_StoreInCreationOrder ==
    /\ [](/\ \A i, j \in 1..Len(db_tasks) : i < j => db_tasks[i].key < db_tasks[j].key
          /\ (req.op = "list" /\ resp.status = 200) => resp.body = DictValues(db_tasks))
    /\ [][/\ req'.op \in {"replace", "patch"} => KeyOrder(db_tasks') = KeyOrder(db_tasks)
          /\ req'.op = "delete" =>
                KeyOrder(db_tasks') = SelectSeq(KeyOrder(db_tasks), LAMBDA k : k # req'.id)]_vars

\* C17: every task is stored under its own id, and no request, whatever its body (one
\* with an "id" key too), changes the id of a task that stays in the store.
C17_IdNeverChanges ==
    /\ [](\A i \in 1..Len(db_tasks) : db_tasks[i].value.id = db_tasks[i].key)
    /\ [][\A k \in Keys(db_tasks) \cap Keys(db_tasks') :
              DictGet(db_tasks', k).id = DictGet(db_tasks, k).id]_vars

\* A patch whose body has "id": 2, answered 200 for task 1, which still has id 1.
C17_Witness ==
    /\ req.op = "patch" /\ req.id = 1 /\ req.body.id = <<2>> /\ resp.status = 200
    /\ before # <<>> /\ Lookup(db_tasks, 1) # <<>> /\ Lookup(db_tasks, 1)[1].id = 1
    /\ Len(db_tasks) = 2

\* C18: a create, replace, patch or delete leaves every entry but the one of its own id
\* (for a create, the id it assigns) as it was; only a create changes the counter;
\* root, list and get change nothing of the store.
C18_OnlyOwnEntryChanges ==
    [][LET own == IF req'.op = "create" THEN task_id_counter' ELSE req'.id
       IN /\ \A k \in (Keys(db_tasks) \cup Keys(db_tasks')) \ {own} :
                 Lookup(db_tasks', k) = Lookup(db_tasks, k)
          /\ req'.op # "create" => task_id_counter' = task_id_counter
          /\ req'.op \in {"root", "list", "get"} =>
                 db_tasks' = db_tasks /\ task_id_counter' = task_id_counter]_vars

\* A delete of task 2 answered 204 while task 1 stays in the store.
C18_Witness ==
    /\ req.op = "delete" /\ req.id = 2 /\ resp.status = 204
    /\ before # <<>> /\ Keys(db_tasks) = {1}

\* C19: the counter is the number of creates that succeeded so far, never goes down,
\* and no key of the store is greater than it; it is 0 with an empty store at startup.
C19_CounterCountsCreates ==
    /\ [](/\ task_id_counter = Len(issued)
          /\ \A k \in Keys(db_tasks) : k <= task_id_counter
          /\ (task_id_counter = 0 => db_tasks = <<>>))
    /\ [][task_id_counter' >= task_id_counter]_vars

\* Two creates and a delete: the counter is 2 with one task left.
C19_Witness ==
    /\ task_id_counter = 2 /\ Len(issued) = 2
    /\ deleted = {1} /\ Keys(db_tasks) = {2}

\* The responses the interface documents.
Documented == {200, 201, 204, 404, 422}

\* The workers' writes to the entry of id, in order.
WritesTo(id) == SelectSeq(log, LAMBDA e : e.id = id)

\* C12: with creates running at the same time, no two creates return the same id and
\* no create writes its task over the task of another create.
C12_ConcurrentCreatesDistinctIds ==
    /\ \A i, j \in 1..Len(issued) : i # j => issued[i] # issued[j]
    /\ \A i, j \in 1..Len(log) :
          (i # j /\ log[i].op = "create" /\ log[j].op = "create") => log[i].id # log[j].id

\* C13: once a delete has removed a task and answered 204, no replace or patch writes
\* the task of that id back, so the id stays out of the store.
C13_NoReinsertAfterDelete ==
    \A i, j \in 1..Len(log) :
        (i < j /\ log[i].op = "delete" /\ log[j].id = log[i].id)
            => log[j].op \notin {"replace", "patch"}

\* C14: every request a worker has finished has one of the documented statuses.
C14_OnlyDocumentedOutcomes ==
    \A w \in Workers : workers[w].pc = "done" => workers[w].resp.status \in Documented

\* C15: when two workers have both finished a patch of the same task, one of only the
\* title and one of only completed, and theirs are the last two writes to that task,
\* the stored task has the new title and the new completed.
C15_DisjointPatchesBothApply ==
    \A v, w \in Workers :
        (/\ v # w
         /\ At(v, "patch", "done") /\ At(w, "patch", "done")
         /\ workers[v].task_id = workers[w].task_id
         /\ workers[v].resp.status = 200 /\ workers[w].resp.status = 200
         /\ workers[v].task_in = Body("'b'", Unset, Unset)
         /\ workers[w].task_in = Body(Unset, Unset, "True")
         /\ LET writes == WritesTo(workers[v].task_id)
            IN /\ Len(writes) >= 2
               /\ {writes[Len(writes)].w, writes[Len(writes) - 1].w} = {v, w})
        => LET task == Lookup(db_tasks, workers[v].task_id)
           IN /\ task # <<>>
              /\ task[1].title = "'b'"
              /\ task[1].completed = "True"

====
